---------------------------- MODULE Spec2Model ----------------------------
(***************************************************************************)
(* Service registry (ServiceFactoryRegistry) and lifecycle manager         *)
(* (ServiceMngr) of the Oven firmware.                                     *)
(*                                                                         *)
(* The registry is the static table sFactories; the manager keeps the two  *)
(* std::map tables sServiceInstances and sServiceHandles.  A startup pass  *)
(* (OnMachineStateStart) exists in two forms: the loop over the ServiceID  *)
(* values (ServiceMngr.hpp) and the unrolled UI / MATTER / MQTT sequence   *)
(* (ServiceMngr_Generalized.cpp); impl says which one the build holds.     *)
(*                                                                         *)
(* The specifications: Spec (registrations and passes in any order),       *)
(* SpecLive (Spec with the steps of a pass scheduled fairly), SpecLate     *)
(* (registrations while a pass runs), SpecRace (a registration that        *)
(* overlaps a lookup of the pass), SpecFrame (direct registry calls        *)
(* between passes), SpecRegistry (the entry points of the registry on      *)
(* their own), SpecBoot (the path from the load of the image through       *)
(* app_main) and SpecStartup (the legacy manager beside the generalized    *)
(* one).                                                                   *)
(***************************************************************************)
EXTENDS Integers, Sequences, FiniteSets, TLC

(***************************************************************************)
(* SharedBus::ServiceID, in the order of the mServiceName initialisers.    *)
(***************************************************************************)
NO_ID == 0
SERVICE_MANAGER == 1
UI == 2
MATTER == 3
MQTT == 4
LOG == 5
MAX_ID == 6

\* an empty std::function / an empty shared_ptr / a null TaskHandle_t
nullptr == 0

\* FreeRTOS idle priority; every task is requested at tskIDLE_PRIORITY + 1
tskIDLE_PRIORITY == 0

(***************************************************************************)
(* Bounds of the model.                                                    *)
(***************************************************************************)
\* distinct non-empty factory functions a caller may pass
NumFactories == 1
\* identities at or above MAX_ID that a caller may pass
NumBeyond == 0
\* direct RegisterService calls in one behaviour of the whole program
MaxRegs == 1
\* direct RegisterService calls in one behaviour of the registry on its own
MaxRegistryRegs == 2
\* startup passes in one behaviour
MaxPasses == 2

Factories == 1..NumFactories
\* every value a caller may pass as a ServiceID
IdArgs == NO_ID..(MAX_ID + NumBeyond)
\* the index range of the static arrays
Slots == NO_ID..(MAX_ID - 1)

\* status codes a failing TaskInit may return
TaskInitErrors == {"ESP_FAIL", "ESP_ERR_NO_MEM"}

\* the two forms of OnMachineStateStart
Impls == {"loop", "unrolled"}

mServiceName(id) ==
    CASE id = NO_ID -> ""
      [] id = SERVICE_MANAGER -> "SRV_MNGR"
      [] id = UI -> "UI"
      [] id = MATTER -> "MATTER"
      [] id = MQTT -> "MQTT"
      [] id = LOG -> "LOG"

\* a faulty variant: the table is read at the entry before the identity's
mServiceStackSizeOfPrevious(id) ==
    CASE id \in {NO_ID, SERVICE_MANAGER} -> 0
      [] id = UI -> 20 * 1024
      [] id \in {MATTER, MQTT} -> 50 * 1024
      [] id = LOG -> 20 * 1024

mServiceStackSize(id) ==
    CASE id = NO_ID -> 0
      [] id = SERVICE_MANAGER -> 20 * 1024
      [] id = UI -> 50 * 1024
      [] id = MATTER -> 50 * 1024
      [] id = MQTT -> 20 * 1024
      [] id = LOG -> 0

(***************************************************************************)
(* std::map as a function whose domain is the set of keys present.         *)
(***************************************************************************)
EmptyMap == [k \in {} |-> nullptr]
MapHas(m, k) == k \in DOMAIN m
MapPut(m, k, v) == [x \in (DOMAIN m) \cup {k} |-> IF x = k THEN v ELSE m[x]]
MapErase(m, k) == [x \in (DOMAIN m) \ {k} |-> m[x]]

VARIABLES
    impl,               \* which OnMachineStateStart the build holds
    sFactories,         \* ServiceFactoryRegistry::sFactories
    sServiceInstances,  \* ServiceMngr::sServiceInstances
    sServiceHandles,    \* ServiceMngr::sServiceHandles
    pc,                 \* position of the manager inside a startup pass
    cur,                \* the identity the pass is at
    acc,                \* firstError (loop form) / err (unrolled form)
    service,            \* InitializeService: the local service
    taskHandle,         \* InitializeService: the local taskHandle
    initErr,            \* the value the last InitializeService returned
    passRet,            \* the value the last pass returned, "none" before
    pre,                \* the record tables when InitializeService was entered
    attempts,           \* identities InitializeService was called for, this pass
    results,            \* [id, err, made] of every InitializeService return, this
                        \* pass: the status and what the factory had yielded
    skipped,            \* identities the pass skipped as not registered
    factoryCalls,       \* [f, name, id] of every factory invocation, this pass
    taskInits,          \* [id, prio, stack] of every TaskInit call, this pass
    lastOp,             \* the last registry call made directly and its result
    lastReg,            \* per identity, the factory of the last accepted registration
    replaced,           \* per identity, the factories a later registration superseded
    passStart,          \* the record tables when the pass was entered
    components,         \* the CONFIG_DONE_COMPONENT_* services the build holds
    sServicesRegistered,\* the guard of RegisterServices
    main,               \* app_main: 0 before it is entered, then the index of the
                        \* statement of AppMain it is at, past the last in its loop
    ctor,               \* what the constructor of the manager has done
    SrvMngHandle,       \* ServiceMngr::SrvMngHandle
    numRegs,
    numPasses

vars == <<impl, sFactories, sServiceInstances, sServiceHandles, pc, cur, acc,
          service, taskHandle, initErr, passRet, pre, attempts, results,
          skipped, factoryCalls, taskInits, lastOp, lastReg, replaced, passStart,
          components, sServicesRegistered, main, ctor, SrvMngHandle, numRegs,
          numPasses>>

bootVars == <<main, ctor, SrvMngHandle>>

registryVars == <<sFactories, lastReg, replaced, numRegs, components,
                  sServicesRegistered>>
recordVars == <<sServiceInstances, sServiceHandles>>
passVars == <<pc, cur, acc, service, taskHandle, initErr, passRet, pre>>
historyVars == <<attempts, results, skipped, factoryCalls, taskInits, passStart>>

(***************************************************************************)
(* ServiceFactoryRegistry                                                  *)
(***************************************************************************)
\* a faulty variant: NO_ID passes the validation
InvalidIDAboveOnly(serviceID) == serviceID >= MAX_ID

\* the validation every registry entry point starts with
InvalidID(serviceID) == serviceID >= MAX_ID \/ serviceID = NO_ID

\* RegisterService: the value returned
RegisterServiceRet(tbl, serviceID, factory) == ~InvalidID(serviceID)

\* a faulty variant: an occupied slot keeps its factory
RegisterServiceTableKeepFirst(tbl, serviceID, factory) ==
    IF InvalidID(serviceID) THEN tbl
    ELSE IF tbl[serviceID] # nullptr THEN tbl
    ELSE [tbl EXCEPT ![serviceID] = factory]

\* a faulty variant: registering over an occupied slot empties it
RegisterServiceTableToggle(tbl, serviceID, factory) ==
    IF InvalidID(serviceID) THEN tbl
    ELSE IF tbl[serviceID] # nullptr THEN [tbl EXCEPT ![serviceID] = nullptr]
    ELSE [tbl EXCEPT ![serviceID] = factory]

\* RegisterService: the table it leaves
RegisterServiceTable(tbl, serviceID, factory) ==
    IF InvalidID(serviceID) THEN tbl
    ELSE [tbl EXCEPT ![serviceID] = factory]

\* a faulty variant: the slot is not looked at
IsServiceRegisteredAnySlot(tbl, serviceID) == ~InvalidID(serviceID)

\* a faulty variant: the comparison with nullptr is inverted
IsServiceRegisteredIfEmpty(tbl, serviceID) ==
    IF InvalidID(serviceID) THEN FALSE
    ELSE tbl[serviceID] = nullptr

\* IsServiceRegistered
IsServiceRegistered(tbl, serviceID) ==
    IF InvalidID(serviceID) THEN FALSE
    ELSE tbl[serviceID] # nullptr

\* a faulty variant: an identity at or above MAX_ID is served from the last slot
CreateServiceFactoryClamped(tbl, serviceID) ==
    IF serviceID = NO_ID THEN nullptr
    ELSE IF serviceID >= MAX_ID THEN tbl[MAX_ID - 1]
    ELSE tbl[serviceID]

\* CreateService: the factory it invokes, nullptr when it invokes none
CreateServiceFactory(tbl, serviceID) ==
    IF InvalidID(serviceID) THEN nullptr
    ELSE tbl[serviceID]

\* a faulty variant: the factory is given the name of the table, not the caller's
CreateServiceCallsOwnName(tbl, serviceID, taskName) ==
    IF CreateServiceFactory(tbl, serviceID) = nullptr THEN << >>
    ELSE << [f |-> CreateServiceFactory(tbl, serviceID),
             name |-> mServiceName(serviceID), id |-> serviceID] >>

\* CreateService: the factory invocations it makes, each with its arguments
CreateServiceCalls(tbl, serviceID, taskName) ==
    IF CreateServiceFactory(tbl, serviceID) = nullptr THEN << >>
    ELSE << [f |-> CreateServiceFactory(tbl, serviceID),
             name |-> taskName, id |-> serviceID] >>

\* CreateService: what it returns once the factory it invoked has yielded made
CreateServiceRet(made) == made

\* what a factory call yields: a shared_ptr to the singleton of the class the
\* factory constructs (named by the factory), or an empty handle when it fails
FactoryResults(factory) == {factory, nullptr}

NoOp == [op |-> "none", id |-> NO_ID, factory |-> nullptr, name |-> "",
         ok |-> FALSE, invoked |-> nullptr, made |-> nullptr,
         calls |-> << >>, ret |-> nullptr, again |-> FALSE,
         before |-> [s \in Slots |-> nullptr]]

\* the identities strictly between NO_ID and MAX_ID
ValidIDs == {i \in IdArgs : NO_ID < i /\ i < MAX_ID}

\* the constructor of the manager has not run
NoCtor == [ran |-> << >>, task |-> << >>]

\* the locals of a pass and of InitializeService, which end with the call
NoPre == [instances |-> EmptyMap, handles |-> EmptyMap, nTaskInits |-> 0]
NoStart == [instances |-> EmptyMap, handles |-> EmptyMap]

\* per identity, the factories superseded once factory is registered for
\* serviceID: those superseded before and the one found in the slot, less factory
Overwritten(rep, tbl, serviceID, factory) ==
    IF serviceID \in ValidIDs
    THEN [rep EXCEPT ![serviceID] = (@ \cup ({tbl[serviceID]} \ {nullptr})) \ {factory}]
    ELSE rep

\* the histories describe the pass in progress or the pass that has just
\* returned: the next operation starts them afresh
ForgetPass ==
    /\ passRet' = "none"
    /\ attempts' = << >>
    /\ results' = << >>
    /\ skipped' = {}
    /\ factoryCalls' = << >>
    /\ taskInits' = << >>
    /\ passStart' = NoStart

(***************************************************************************)
(* Direct calls of the registry's three entry points.                      *)
(***************************************************************************)
RegisterService(serviceID, factory) ==
    /\ sFactories' = RegisterServiceTable(sFactories, serviceID, factory)
    /\ lastOp' = [NoOp EXCEPT !.op = "RegisterService", !.id = serviceID,
                              !.factory = factory,
                              !.ok = RegisterServiceRet(sFactories, serviceID, factory),
                              !.before = sFactories]
    /\ lastReg' = IF serviceID \in ValidIDs
                  THEN [lastReg EXCEPT ![serviceID] = factory]
                  ELSE lastReg
    /\ replaced' = Overwritten(replaced, sFactories, serviceID, factory)
    /\ numRegs' = numRegs + 1
    /\ ForgetPass
    /\ UNCHANGED <<impl, bootVars, recordVars, pc, cur, acc, service, taskHandle, initErr, pre,
                   numPasses, components, sServicesRegistered>>

\* a faulty variant: the registry records the service it has created
CreateServiceKeepsInstance(serviceID, taskName) ==
    LET factory == CreateServiceFactory(sFactories, serviceID) IN
    /\ \E made \in (IF factory = nullptr THEN {nullptr} ELSE FactoryResults(factory)) :
          /\ lastOp' = [NoOp EXCEPT !.op = "CreateService", !.id = serviceID,
                                    !.name = taskName, !.invoked = factory,
                                    !.made = made,
                                    !.before = sFactories]
          /\ sServiceInstances' = IF made = nullptr THEN sServiceInstances
                                  ELSE MapPut(sServiceInstances, serviceID, made + 1)
    /\ UNCHANGED <<impl, bootVars, registryVars, sServiceHandles, passVars, historyVars,
                   numPasses>>

CreateService(serviceID, taskName) ==
    LET factory == CreateServiceFactory(sFactories, serviceID) IN
    /\ \E made \in (IF factory = nullptr THEN {nullptr} ELSE FactoryResults(factory)) :
          lastOp' = [NoOp EXCEPT !.op = "CreateService", !.id = serviceID,
                                 !.name = taskName, !.invoked = factory,
                                 !.made = made,
                                 !.calls = CreateServiceCalls(sFactories, serviceID, taskName),
                                 !.ret = IF factory = nullptr THEN nullptr
                                         ELSE CreateServiceRet(made),
                                 !.before = sFactories]
    /\ UNCHANGED <<impl, bootVars, registryVars, recordVars, passVars, historyVars, numPasses>>

IsServiceRegisteredCall(serviceID) ==
    /\ lastOp' = [NoOp EXCEPT !.op = "IsServiceRegistered", !.id = serviceID,
                              !.ok = IsServiceRegistered(sFactories, serviceID),
                              !.before = sFactories]
    /\ UNCHANGED <<impl, bootVars, registryVars, recordVars, passVars, historyVars, numPasses>>

(***************************************************************************)
(* The project's registration routine (ServiceRegistration.hpp): one       *)
(* REGISTER_SERVICE per component of the build, behind the guard           *)
(* sServicesRegistered.                                                    *)
(***************************************************************************)
\* the services a build may hold, in the order the routine registers them
ProjectOrder == <<UI, MATTER, MQTT>>

\* the lambda REGISTER_SERVICE passes for a component: it constructs the
\* singleton of the component's class, which the token names
ProjectFactory(serviceID) == MAX_ID + serviceID

RECURSIVE OverwrittenAll(_, _, _, _)
\* what the REGISTER_SERVICE calls of ProjectOrder[n..] overwrite
OverwrittenAll(rep, tbl, n, built) ==
    IF n > Len(ProjectOrder) THEN rep
    ELSE OverwrittenAll(IF ProjectOrder[n] \in built
                        THEN Overwritten(rep, tbl, ProjectOrder[n],
                                         ProjectFactory(ProjectOrder[n]))
                        ELSE rep,
                        tbl, n + 1, built)

RECURSIVE RegisterAll(_, _, _)
\* the table after the REGISTER_SERVICE calls of ProjectOrder[n..] for the build
RegisterAll(tbl, n, built) ==
    IF n > Len(ProjectOrder) THEN tbl
    ELSE RegisterAll(IF ProjectOrder[n] \in built
                     THEN RegisterServiceTable(tbl, ProjectOrder[n],
                                               ProjectFactory(ProjectOrder[n]))
                     ELSE tbl,
                     n + 1, built)

\* the REGISTER_SERVICE calls of the build, one after the other
RegisterComponents ==
    /\ sFactories' = RegisterAll(sFactories, 1, components)
    /\ lastReg' = [s \in Slots |-> IF s \in components THEN ProjectFactory(s)
                                    ELSE lastReg[s]]
    /\ replaced' = OverwrittenAll(replaced, sFactories, 1, components)

\* RegisterServices: whether the call returns at its guard
\* a faulty variant: the guard is never taken
RegisterServicesSkipsNever(done) == FALSE

RegisterServicesSkips(done) == done

\* lastOp.again says that the call before this one was a call of the same routine
RegisterServices ==
    /\ IF RegisterServicesSkips(sServicesRegistered)
       THEN UNCHANGED <<sFactories, lastReg, replaced, sServicesRegistered>>
       ELSE /\ RegisterComponents
            /\ sServicesRegistered' = TRUE
    /\ lastOp' = [NoOp EXCEPT !.op = "RegisterServices",
                              !.again = (lastOp.op = "RegisterServices"),
                              !.before = sFactories]
    /\ ForgetPass
    /\ UNCHANGED <<impl, recordVars, pc, cur, acc, service, taskHandle, initErr, pre,
                   numRegs, numPasses, components>>

\* the routine of ServiceRegistration_Oven_Example.cpp, which has no guard
RegisterProjectServices ==
    /\ RegisterComponents
    /\ lastOp' = [NoOp EXCEPT !.op = "RegisterProjectServices",
                              !.again = (lastOp.op = "RegisterProjectServices"),
                              !.before = sFactories]
    /\ ForgetPass
    /\ UNCHANGED <<impl, recordVars, pc, cur, acc, service, taskHandle, initErr, pre,
                   numRegs, numPasses, components, sServicesRegistered>>

(***************************************************************************)
(* ServiceMngr::InitializeService, in two steps: up to the factory's       *)
(* answer, and the TaskInit call with what follows it.                     *)
(***************************************************************************)
\* a faulty variant: the service is stored before it is tested
InitializeServiceStoreEarly(instances, serviceID, svc) ==
    MapPut(instances, serviceID, svc)

\* sServiceInstances once the factory has answered with service
InitializeServiceStore(instances, serviceID, svc) ==
    IF svc = nullptr THEN instances
    ELSE MapPut(instances, serviceID, svc)

\* a faulty variant: no rollback when the start fails
InitializeServiceInstancesKept(instances, serviceID, err) == instances

\* sServiceInstances once TaskInit has returned err
InitializeServiceInstances(instances, serviceID, err) ==
    IF err = "ESP_OK" THEN instances
    ELSE MapErase(instances, serviceID)

\* a faulty variant: the handle of a started task is not kept
InitializeServiceHandlesDropped(handles, serviceID, err, handle) == handles

\* sServiceHandles once TaskInit has returned err and written handle
InitializeServiceHandles(handles, serviceID, err, handle) ==
    IF err = "ESP_OK" THEN MapPut(handles, serviceID, handle)
    ELSE handles

InitializeServiceCreate ==
    /\ pc = "create"
    /\ LET factory == CreateServiceFactory(sFactories, cur) IN
       \E svc \in (IF factory = nullptr THEN {nullptr} ELSE FactoryResults(factory)) :
          /\ factoryCalls' = factoryCalls
                                \o CreateServiceCalls(sFactories, cur, mServiceName(cur))
          /\ service' = svc
          /\ sServiceInstances' = InitializeServiceStore(sServiceInstances, cur, svc)
          /\ IF svc = nullptr
             THEN /\ initErr' = "ESP_FAIL"
                  /\ results' = Append(results, [id |-> cur, err |-> "ESP_FAIL",
                                                 made |-> svc])
                  /\ pc' = "ret"
             ELSE /\ pc' = "taskinit"
                  /\ UNCHANGED <<initErr, results>>
    /\ UNCHANGED <<impl, bootVars, registryVars, sServiceHandles, cur, acc, taskHandle, passRet,
                   pre, attempts, skipped, taskInits, passStart, lastOp, numPasses>>

\* the handle a successful TaskInit writes: the handle of the task it created
\* for the service, an opaque non-null value that the identity names here
CreatedTask(serviceID) == serviceID

InitializeServiceTaskInit ==
    /\ pc = "taskinit"
    /\ \E err \in {"ESP_OK"} \cup TaskInitErrors :
       LET handle == IF err = "ESP_OK" THEN CreatedTask(cur) ELSE nullptr IN
          /\ taskInits' = Append(taskInits, [id |-> cur, prio |-> tskIDLE_PRIORITY + 1,
                                             stack |-> mServiceStackSize(cur),
                                             err |-> err, handle |-> handle])
          /\ taskHandle' = handle
          /\ sServiceHandles' = InitializeServiceHandles(sServiceHandles, cur, err, handle)
          /\ sServiceInstances' = InitializeServiceInstances(sServiceInstances, cur, err)
          /\ initErr' = err
          /\ results' = Append(results, [id |-> cur, err |-> err, made |-> service])
    /\ pc' = "ret"
    /\ UNCHANGED <<impl, bootVars, registryVars, cur, acc, service, passRet, pre, attempts,
                   skipped, factoryCalls, passStart, lastOp, numPasses>>

(***************************************************************************)
(* ServiceMngr::OnMachineStateStart.  A pass is entered, then goes through *)
(* the identities: at "head" it decides what to do with cur, at "ret" it   *)
(* takes the value InitializeService returned.                             *)
(***************************************************************************)
OnMachineStateStart ==
    /\ pc = "idle"
    /\ numPasses < MaxPasses
    /\ numPasses' = numPasses + 1
    /\ pc' = "head"
    /\ cur' = UI
    /\ acc' = "ESP_OK"
    /\ passRet' = "none"
    /\ attempts' = << >>
    /\ results' = << >>
    /\ skipped' = {}
    /\ factoryCalls' = << >>
    /\ taskInits' = << >>
    /\ passStart' = [instances |-> sServiceInstances, handles |-> sServiceHandles]
    /\ lastOp' = NoOp
    /\ UNCHANGED <<impl, bootVars, registryVars, recordVars, service, taskHandle, initErr, pre>>

\* the call of InitializeService(cur): the pass enters it
CallInitializeService ==
    /\ pc' = "create"
    /\ attempts' = Append(attempts, cur)
    /\ pre' = [instances |-> sServiceInstances, handles |-> sServiceHandles,
               nTaskInits |-> Len(taskInits)]
    /\ UNCHANGED <<cur, acc, passRet, skipped, service, taskHandle, initErr>>

\* a faulty variant: the pass waits at an identity that is not registered
SkipServiceAgain(next) ==
    /\ skipped' = skipped \cup {cur}
    /\ cur' = cur
    /\ UNCHANGED <<pc, acc, passRet, pre, attempts, service, taskHandle, initErr>>

\* the else branch: the identity is logged as not registered
SkipService(next) ==
    /\ skipped' = skipped \cup {cur}
    /\ cur' = next
    /\ UNCHANGED <<pc, acc, passRet, pre, attempts, service, taskHandle, initErr>>

\* return of the pass
ReturnStatus ==
    /\ passRet' = acc
    /\ pc' = "idle"
    /\ cur' = NO_ID
    /\ acc' = "ESP_OK"
    /\ pre' = NoPre
    /\ service' = nullptr
    /\ taskHandle' = nullptr
    /\ initErr' = "ESP_OK"
    /\ UNCHANGED <<attempts, skipped>>

\* a faulty variant: LOG is not left out
LoopContinuesNever(serviceID) == FALSE

\* loop form: the identities the loop body leaves with continue
LoopContinues(serviceID) == serviceID = LOG

\* loop form: firstError after InitializeService returned initErr
LoopFirstError(firstError, err) ==
    IF err # "ESP_OK" /\ firstError = "ESP_OK" THEN err ELSE firstError

\* a faulty variant: the loop ends at the first failure
LoopNextAbort(serviceID, err) == IF err # "ESP_OK" THEN MAX_ID ELSE serviceID + 1

\* a faulty variant: an identity that failed is tried again
LoopNextRetry(serviceID, err) == IF err # "ESP_OK" THEN serviceID ELSE serviceID + 1

\* loop form: the identity the loop goes on with after InitializeService returned
LoopNext(serviceID, err) == serviceID + 1

LoopHead ==
    /\ impl = "loop"
    /\ pc = "head"
    /\ IF cur >= MAX_ID THEN ReturnStatus
       ELSE IF LoopContinues(cur)
            THEN /\ cur' = cur + 1
                 /\ UNCHANGED <<pc, acc, passRet, pre, attempts, skipped, service,
                                taskHandle, initErr>>
       ELSE IF IsServiceRegistered(sFactories, cur) THEN CallInitializeService
       ELSE SkipService(cur + 1)
    /\ UNCHANGED <<impl, bootVars, registryVars, recordVars, results, factoryCalls, taskInits,
                   passStart, lastOp, numPasses>>

LoopReturned ==
    /\ impl = "loop"
    /\ pc = "ret"
    /\ acc' = LoopFirstError(acc, initErr)
    /\ cur' = LoopNext(cur, initErr)
    /\ pc' = "head"
    /\ UNCHANGED <<impl, bootVars, registryVars, recordVars, service, taskHandle, initErr,
                   passRet, pre, historyVars, lastOp, numPasses>>

\* unrolled form: the block that follows the block of serviceID, MAX_ID after the last
UnrolledNext(serviceID) ==
    CASE serviceID = UI -> MATTER
      [] serviceID = MATTER -> MQTT
      [] serviceID = MQTT -> MAX_ID

\* unrolled form: err after InitializeService returned
UnrolledErr(err, returned) == returned

UnrolledHead ==
    /\ impl = "unrolled"
    /\ pc = "head"
    /\ IF cur = MAX_ID THEN ReturnStatus
       ELSE IF IsServiceRegistered(sFactories, cur) THEN CallInitializeService
       ELSE SkipService(UnrolledNext(cur))
    /\ UNCHANGED <<impl, bootVars, registryVars, recordVars, results, factoryCalls, taskInits,
                   passStart, lastOp, numPasses>>

UnrolledReturned ==
    /\ impl = "unrolled"
    /\ pc = "ret"
    /\ acc' = UnrolledErr(acc, initErr)
    /\ cur' = UnrolledNext(cur)
    /\ pc' = "head"
    /\ UNCHANGED <<impl, bootVars, registryVars, recordVars, service, taskHandle, initErr,
                   passRet, pre, historyVars, lastOp, numPasses>>

RECURSIVE LoopStatus(_, _, _)
\* loop form: firstError once InitializeService has returned res[n..], one
\* after the other
LoopStatus(res, n, firstError) ==
    IF n > Len(res) THEN firstError
    ELSE LoopStatus(res, n + 1, LoopFirstError(firstError, res[n].err))

RECURSIVE UnrolledStatus(_, _, _)
\* unrolled form: err once InitializeService has returned res[n..], one after
\* the other
UnrolledStatus(res, n, err) ==
    IF n > Len(res) THEN err
    ELSE UnrolledStatus(res, n + 1, UnrolledErr(err, res[n].err))

(***************************************************************************)
(* The legacy manager (ServiceMngr.cpp before the registry): its           *)
(* OnMachineStateStart is one block per component of the build, in the     *)
(* order UI, MATTER, MQTT.  A block fetches the singleton of the           *)
(* component's class and calls its TaskInit; the block of UI ends with a   *)
(* delay when MATTER is built too.  uiCoffeeMaker, matterOven, mqttOvenApp *)
(* are kept in sServiceInstances and LVGLHandle, MatterHandle, MQTTHandle  *)
(* in sServiceHandles, under the identity of the component.                *)
(***************************************************************************)
\* the manager that runs: one of the two generalized forms, or the legacy one
Managers == Impls \cup {"legacy"}

\* vTaskDelay(pdMS_TO_TICKS(500)), in milliseconds
LegacyDelayMs == 500

\* the block that follows the block of serviceID in a build of the components
\* built, MAX_ID after the last
LegacyNextBlock(serviceID, built) ==
    IF \E id \in built : id > serviceID
    THEN CHOOSE id \in built : id > serviceID /\ \A other \in built :
                                                   other > serviceID => id <= other
    ELSE MAX_ID

\* err after the TaskInit of a block returned
LegacyErr(err, returned) == returned

RECURSIVE LegacyStatus(_, _, _)
\* err once the TaskInit calls of the blocks have returned res[n..], one after
\* the other
LegacyStatus(res, n, err) ==
    IF n > Len(res) THEN err
    ELSE LegacyStatus(res, n + 1, LegacyErr(err, res[n].err))

\* the block of UI is followed by the delay
LegacyDelays(serviceID, built) == serviceID = UI /\ MATTER \in built

LegacyOnMachineStateStart ==
    /\ impl = "legacy"
    /\ pc = "idle"
    /\ numPasses < MaxPasses
    /\ numPasses' = numPasses + 1
    /\ pc' = "block"
    /\ cur' = LegacyNextBlock(NO_ID, components)
    /\ acc' = "ESP_OK"
    /\ passRet' = "none"
    /\ attempts' = << >>
    /\ results' = << >>
    /\ skipped' = {}
    /\ factoryCalls' = << >>
    /\ taskInits' = << >>
    /\ passStart' = [instances |-> sServiceInstances, handles |-> sServiceHandles]
    /\ lastOp' = NoOp
    /\ UNCHANGED <<impl, bootVars, registryVars, recordVars, service, taskHandle, initErr, pre>>

\* one block: Singleton<...>::GetInstance(mServiceName[id], id), then TaskInit
LegacyBlock ==
    /\ impl = "legacy"
    /\ pc = "block"
    /\ cur # MAX_ID
    /\ \E err \in {"ESP_OK"} \cup TaskInitErrors :
       LET made == ProjectFactory(cur)
           handle == IF err = "ESP_OK" THEN CreatedTask(cur) ELSE nullptr IN
          /\ attempts' = Append(attempts, cur)
          /\ factoryCalls' = Append(factoryCalls, [f |-> ProjectFactory(cur),
                                                   name |-> mServiceName(cur),
                                                   id |-> cur])
          /\ service' = made
          /\ sServiceInstances' = MapPut(sServiceInstances, cur, made)
          /\ taskInits' = Append(taskInits, [id |-> cur, prio |-> tskIDLE_PRIORITY + 1,
                                             stack |-> mServiceStackSize(cur),
                                             err |-> err, handle |-> handle])
          /\ taskHandle' = handle
          /\ sServiceHandles' = IF err = "ESP_OK"
                                THEN MapPut(sServiceHandles, cur, handle)
                                ELSE sServiceHandles
          /\ initErr' = err
          /\ acc' = LegacyErr(acc, err)
          /\ results' = Append(results, [id |-> cur, err |-> err, made |-> made])
    /\ IF LegacyDelays(cur, components)
       THEN pc' = "delay" /\ cur' = cur
       ELSE pc' = "block" /\ cur' = LegacyNextBlock(cur, components)
    /\ UNCHANGED <<impl, bootVars, registryVars, passRet, pre, skipped, passStart, lastOp,
                   numPasses>>

\* the delay at the end of the block of UI
LegacyDelay ==
    /\ impl = "legacy"
    /\ pc = "delay"
    /\ lastOp' = [NoOp EXCEPT !.op = "vTaskDelay", !.id = LegacyDelayMs]
    /\ pc' = "block"
    /\ cur' = LegacyNextBlock(cur, components)
    /\ UNCHANGED <<impl, bootVars, registryVars, recordVars, acc, service, taskHandle,
                   initErr, passRet, pre, historyVars, numPasses>>

\* return err
LegacyReturn ==
    /\ impl = "legacy"
    /\ pc = "block"
    /\ cur = MAX_ID
    /\ ReturnStatus
    /\ UNCHANGED <<impl, bootVars, registryVars, recordVars, results, factoryCalls,
                   taskInits, passStart, lastOp, numPasses>>

(***************************************************************************)
(* app_main and the constructor of ServiceMngr.  AppMain lists what        *)
(* app_main executes before its heartbeat loop: the call of the            *)
(* registration routine, then the construction of the manager, which is    *)
(* the body of the constructor: three bring-up calls and TaskInit for the  *)
(* manager's own task.                                                     *)
(***************************************************************************)
\* a faulty variant: the manager is constructed before the factories are registered
AppMainConstructsFirst ==
    <<"nvsFlashInit", "SpiffsInit", "SharedBus::Init", "TaskInit",
      "RegisterProjectServices">>

AppMain ==
    <<"RegisterProjectServices",
      "nvsFlashInit", "SpiffsInit", "SharedBus::Init", "TaskInit">>

\* app_main is about to execute the statement name
AtStatement(name) == main \in DOMAIN AppMain /\ AppMain[main] = name

\* the bring-up calls of the constructor and what each may return
BringUp == {"nvsFlashInit", "SpiffsInit", "SharedBus::Init"}
BringUpResults == {"ESP_OK", "ESP_FAIL"}

\* a faulty variant: a step that fails ends the construction
ConstructorNextAbort(at, err) == IF err # "ESP_OK" THEN Len(AppMain) + 1 ELSE at + 1

\* the constructor tests a returned status only to log it: the statement that
\* follows the one at position at, which returned err
ConstructorNext(at, err) == at + 1

\* a constructor function of the image runs RegisterServices before app_main
AutoRegisterServices ==
    /\ main = 0
    /\ RegisterServices
    /\ main' = 1
    /\ UNCHANGED <<ctor, SrvMngHandle>>

\* a constructor function of the image runs RegisterProjectServices before app_main
AutoRegisterProjectServices ==
    /\ main = 0
    /\ RegisterProjectServices
    /\ main' = 1
    /\ UNCHANGED <<ctor, SrvMngHandle>>

\* app_main is entered and no constructor function has registered anything
AppMainEntered ==
    /\ main = 0
    /\ main' = 1
    /\ UNCHANGED <<impl, registryVars, recordVars, passVars, historyVars, lastOp,
                   ctor, SrvMngHandle, numPasses>>

\* app_main calls RegisterProjectServices
AppMainRegisters ==
    /\ AtStatement("RegisterProjectServices")
    /\ RegisterProjectServices
    /\ main' = main + 1
    /\ UNCHANGED <<ctor, SrvMngHandle>>

\* nvsFlashInit, SpiffsInit, SharedBus::Init
ServiceMngrBringUp ==
    /\ \E step \in BringUp :
          /\ AtStatement(step)
          /\ \E err \in BringUpResults :
                /\ ctor' = [ctor EXCEPT !.ran = Append(@, [step |-> step, err |-> err])]
                /\ main' = ConstructorNext(main, err)
    /\ UNCHANGED <<impl, registryVars, recordVars, passVars, historyVars, lastOp,
                   SrvMngHandle, numPasses>>

\* TaskInit(&SrvMngHandle, ...) and the return of the constructor
ServiceMngrTaskInit ==
    /\ AtStatement("TaskInit")
    /\ \E err \in {"ESP_OK"} \cup TaskInitErrors :
          /\ ctor' = [ctor EXCEPT !.task = Append(@, [prio |-> tskIDLE_PRIORITY + 1,
                                                     stack |-> mServiceStackSize(SERVICE_MANAGER),
                                                     err |-> err])]
          /\ SrvMngHandle' = IF err = "ESP_OK" THEN CreatedTask(SERVICE_MANAGER)
                             ELSE SrvMngHandle
          /\ main' = ConstructorNext(main, err)
    /\ UNCHANGED <<impl, registryVars, recordVars, passVars, historyVars, lastOp,
                   numPasses>>

\* OnMachineStateStart is called from the manager's own task
ManagerTaskRuns == SrvMngHandle # nullptr

(***************************************************************************)
(* The specification: registry calls are made while no pass is running     *)
(* (registration precedes startup); a pass runs from its head to its       *)
(* return.                                                                 *)
(***************************************************************************)
Init ==
    /\ impl \in Impls
    /\ sFactories = [s \in Slots |-> nullptr]
    /\ sServiceInstances = EmptyMap
    /\ sServiceHandles = EmptyMap
    /\ pc = "idle"
    /\ cur = NO_ID
    /\ acc = "ESP_OK"
    /\ service = nullptr
    /\ taskHandle = nullptr
    /\ initErr = "ESP_OK"
    /\ passRet = "none"
    /\ pre = NoPre
    /\ attempts = << >>
    /\ results = << >>
    /\ skipped = {}
    /\ factoryCalls = << >>
    /\ taskInits = << >>
    /\ lastOp = NoOp
    /\ lastReg = [s \in Slots |-> nullptr]
    /\ replaced = [s \in Slots |-> {}]
    /\ passStart = NoStart
    /\ components \in SUBSET {UI, MATTER, MQTT}
    /\ sServicesRegistered = FALSE
    /\ main = 0
    /\ ctor = NoCtor
    /\ SrvMngHandle = nullptr
    /\ numRegs = 0
    /\ numPasses = 0

\* the names a direct caller of CreateService passes
TaskNames == {"UI", "X"}

Next ==
    \/ \E serviceID \in IdArgs, factory \in Factories \cup {nullptr} :
          pc = "idle" /\ numRegs < MaxRegs /\ RegisterService(serviceID, factory)
    \/ pc = "idle" /\ RegisterServices /\ UNCHANGED bootVars
    \/ OnMachineStateStart
    \/ LoopHead
    \/ LoopReturned
    \/ UnrolledHead
    \/ UnrolledReturned
    \/ InitializeServiceCreate
    \/ InitializeServiceTaskInit

Spec == Init /\ [][Next]_vars

(***************************************************************************)
(* The same with the steps of a pass taken whenever one is possible: the   *)
(* manager's task is scheduled, and every factory call and every TaskInit  *)
(* call returns.                                                           *)
(***************************************************************************)
PassStep ==
    \/ LoopHead
    \/ LoopReturned
    \/ UnrolledHead
    \/ UnrolledReturned
    \/ InitializeServiceCreate
    \/ InitializeServiceTaskInit

SpecLive == Init /\ [][Next]_vars /\ WF_vars(PassStep)

(***************************************************************************)
(* Registration from another task while a pass is in progress: the call    *)
(* takes effect between two steps of the pass.  It leaves what the pass    *)
(* has recorded so far as it is.                                           *)
(***************************************************************************)
RegisterServiceLate(serviceID, factory) ==
    /\ pc # "idle"
    /\ sFactories' = RegisterServiceTable(sFactories, serviceID, factory)
    /\ lastReg' = IF serviceID \in ValidIDs
                  THEN [lastReg EXCEPT ![serviceID] = factory]
                  ELSE lastReg
    /\ replaced' = Overwritten(replaced, sFactories, serviceID, factory)
    /\ numRegs' = numRegs + 1
    /\ UNCHANGED <<impl, bootVars, recordVars, passVars, historyVars, lastOp,
                   numPasses, components, sServicesRegistered>>

\* a std::function object whose words come partly from the function the slot
\* held and partly from the one being assigned
TornFunction == -1

\* what the copy of CreateService may hold when it is made while RegisterService
\* assigns new to the slot that held old: an unsynchronised read of an object
\* that is being written
RacingCopies(old, new) ==
    {old, new} \cup (IF old = new THEN {} ELSE {TornFunction})

\* what a call through the copy may yield: the call of a factory yields what
\* the factory yields; the call through a torn object runs the target of one
\* of the two functions it is made of
RacingCalls(copy, old, new) ==
    IF copy = TornFunction
    THEN FactoryResults(old) \cup FactoryResults(new)
    ELSE FactoryResults(copy)

\* whether the call through the copy ends the task instead of returning: the
\* call through a torn object may jump to no function at all
RacingCrashes(copy) == IF copy = TornFunction THEN {TRUE, FALSE} ELSE {FALSE}

\* the lookup of CreateService for cur made while RegisterService(cur, factory),
\* called from another task, is assigning the slot
InitializeServiceCreateRacing(factory) ==
    /\ pc = "create"
    /\ sFactories' = RegisterServiceTable(sFactories, cur, factory)
    /\ lastReg' = [lastReg EXCEPT ![cur] = factory]
    /\ replaced' = Overwritten(replaced, sFactories, cur, factory)
    /\ numRegs' = numRegs + 1
    /\ \E copy \in RacingCopies(sFactories[cur], factory) :
         IF copy = nullptr
         THEN /\ service' = nullptr
              /\ initErr' = "ESP_FAIL"
              /\ results' = Append(results, [id |-> cur, err |-> "ESP_FAIL",
                                             made |-> nullptr])
              /\ pc' = "ret"
              /\ UNCHANGED <<factoryCalls, sServiceInstances>>
         ELSE \E svc \in RacingCalls(copy, sFactories[cur], factory),
                 crash \in RacingCrashes(copy) :
                 /\ factoryCalls' = Append(factoryCalls,
                                           [f |-> copy, name |-> mServiceName(cur),
                                            id |-> cur])
                 /\ IF crash
                    THEN /\ pc' = "crashed"
                         /\ UNCHANGED <<service, initErr, results, sServiceInstances>>
                    ELSE /\ service' = svc
                         /\ sServiceInstances' =
                               InitializeServiceStore(sServiceInstances, cur, svc)
                         /\ IF svc = nullptr
                            THEN /\ initErr' = "ESP_FAIL"
                                 /\ results' = Append(results,
                                                      [id |-> cur, err |-> "ESP_FAIL",
                                                       made |-> svc])
                                 /\ pc' = "ret"
                            ELSE /\ pc' = "taskinit"
                                 /\ UNCHANGED <<initErr, results>>
    /\ UNCHANGED <<impl, bootVars, sServiceHandles, cur, acc, taskHandle, passRet, pre,
                   attempts, skipped, taskInits, passStart, lastOp, numPasses,
                   components, sServicesRegistered>>

RaceNext ==
    \/ Next
    \/ \E serviceID \in IdArgs, factory \in Factories \cup {nullptr} :
          numRegs < MaxRegs /\ RegisterServiceLate(serviceID, factory)
    \/ \E factory \in Factories \cup {nullptr} :
          numRegs < MaxRegs /\ InitializeServiceCreateRacing(factory)

SpecRace == Init /\ [][RaceNext]_vars

LateNext ==
    \/ Next
    \/ \E serviceID \in IdArgs, factory \in Factories \cup {nullptr} :
          numRegs < MaxRegs /\ RegisterServiceLate(serviceID, factory)

SpecLate == Init /\ [][LateNext]_vars

(***************************************************************************)
(* The passes together with direct calls of CreateService and              *)
(* IsServiceRegistered made while no pass is running, in a build of the    *)
(* three components.                                                       *)
(***************************************************************************)
\* the identities the direct calls are made for: one a pass starts, and one
\* out of range
FrameArgs == {UI, MAX_ID}

FrameNext ==
    \/ Next
    \/ \E serviceID \in FrameArgs :
          pc = "idle" /\ CreateService(serviceID, mServiceName(UI))
    \/ \E serviceID \in FrameArgs :
          pc = "idle" /\ IsServiceRegisteredCall(serviceID)

\* the build holds the three components
InitFrame == Init /\ components = {UI, MATTER, MQTT}

SpecFrame == InitFrame /\ [][FrameNext]_vars

(***************************************************************************)
(* Startup under either manager: the image is built with the legacy        *)
(* manager or with one form of the generalized one, for some set of        *)
(* components; the generalized manager finds the factories the project's   *)
(* routine has registered.                                                 *)
(***************************************************************************)
InitStartup ==
    /\ impl \in Managers
    /\ sFactories = [s \in Slots |-> nullptr]
    /\ sServiceInstances = EmptyMap
    /\ sServiceHandles = EmptyMap
    /\ pc = "idle"
    /\ cur = NO_ID
    /\ acc = "ESP_OK"
    /\ service = nullptr
    /\ taskHandle = nullptr
    /\ initErr = "ESP_OK"
    /\ passRet = "none"
    /\ pre = NoPre
    /\ attempts = << >>
    /\ results = << >>
    /\ skipped = {}
    /\ factoryCalls = << >>
    /\ taskInits = << >>
    /\ lastOp = NoOp
    /\ lastReg = [s \in Slots |-> nullptr]
    /\ replaced = [s \in Slots |-> {}]
    /\ passStart = NoStart
    /\ components \in SUBSET {UI, MATTER, MQTT}
    /\ sServicesRegistered = FALSE
    /\ main = 0
    /\ ctor = NoCtor
    /\ SrvMngHandle = nullptr
    /\ numRegs = 0
    /\ numPasses = 0

StartupNext ==
    \/ impl \in Impls /\ pc = "idle" /\ RegisterServices /\ UNCHANGED bootVars
    \/ impl \in Impls /\ OnMachineStateStart
    \/ LoopHead
    \/ LoopReturned
    \/ UnrolledHead
    \/ UnrolledReturned
    \/ InitializeServiceCreate
    \/ InitializeServiceTaskInit
    \/ LegacyOnMachineStateStart
    \/ LegacyBlock
    \/ LegacyDelay
    \/ LegacyReturn

SpecStartup == InitStartup /\ [][StartupNext]_vars

(***************************************************************************)
(* The registry on its own: any sequence of calls of its entry points and  *)
(* of the project's registration routine, with no pass running.            *)
(***************************************************************************)
RegistryNext ==
    \/ \E serviceID \in IdArgs, factory \in Factories \cup {nullptr} :
          numRegs < MaxRegistryRegs /\ RegisterService(serviceID, factory)
    \/ \E serviceID \in IdArgs, taskName \in TaskNames :
          CreateService(serviceID, taskName)
    \/ \E serviceID \in IdArgs : IsServiceRegisteredCall(serviceID)
    \/ RegisterServices /\ UNCHANGED bootVars
    \/ RegisterProjectServices /\ UNCHANGED bootVars

\* no pass runs here, so that one form of the build stands for both
InitRegistry == Init /\ impl = "loop"

SpecRegistry == InitRegistry /\ [][RegistryNext]_vars

(***************************************************************************)
(* The bootstrap path: the constructor functions of the image, app_main up *)
(* to its heartbeat loop, the passes of the manager's task, and queries of *)
(* the registry between the passes.                                        *)
(***************************************************************************)
BootNext ==
    \/ AutoRegisterServices
    \/ AutoRegisterProjectServices
    \/ AppMainEntered
    \/ AppMainRegisters
    \/ ServiceMngrBringUp
    \/ ServiceMngrTaskInit
    \/ ManagerTaskRuns /\ OnMachineStateStart
    \/ \E serviceID \in IdArgs : pc = "idle" /\ IsServiceRegisteredCall(serviceID)
    \/ LoopHead
    \/ LoopReturned
    \/ UnrolledHead
    \/ UnrolledReturned
    \/ InitializeServiceCreate
    \/ InitializeServiceTaskInit

SpecBoot == Init /\ [][BootNext]_vars

(***************************************************************************)
(* Vocabulary of the properties.                                           *)
(***************************************************************************)
\* the identities a pass may start, in ascending order
Eligible == <<UI, MATTER, MQTT>>

\* a pass has returned and nothing has happened since
PassReturned == passRet # "none"

\* InitializeService(cur) has returned and the pass has not yet gone on
InitReturned == pc = "ret"

\* the identities of a history
IdsOf(history) == {history[n].id : n \in DOMAIN history}

\* the entries of results that are failures
Failures == {n \in DOMAIN results : results[n].err # "ESP_OK"}

\* the status of the lowest-numbered identity that failed, ESP_OK when none did
FirstFailure ==
    IF Failures = {} THEN "ESP_OK"
    ELSE LET n == CHOOSE m \in Failures : \A k \in Failures : results[m].id <= results[k].id
         IN results[n].err

\* a slot of the table holds a factory
HasFactory(serviceID) == serviceID \in Slots /\ sFactories[serviceID] # nullptr

\* the TaskInit call of the InitializeService call that has just returned, if any
CalledTaskInit == Len(taskInits) > pre.nTaskInits
LastTaskInit == taskInits[Len(taskInits)]

\* the record tables hold for serviceID what m and h hold for it
SameRecord(serviceID, m, h) ==
    /\ MapHas(sServiceInstances, serviceID) <=> MapHas(m, serviceID)
    /\ MapHas(sServiceInstances, serviceID) => sServiceInstances[serviceID] = m[serviceID]
    /\ MapHas(sServiceHandles, serviceID) <=> MapHas(h, serviceID)
    /\ MapHas(sServiceHandles, serviceID) => sServiceHandles[serviceID] = h[serviceID]

(***************************************************************************)
(* C1.  A pass returns ESP_OK when no attempted identity failed, and else  *)
(* the status of the first (lowest-numbered) identity whose                *)
(* InitializeService did not succeed, in the loop form and in the unrolled *)
(* form alike.                                                             *)
(***************************************************************************)
C1_ReturnsFirstFailure == PassReturned => passRet = FirstFailure

(***************************************************************************)
(* C2.  A pass attempts every eligible identity that has a registered      *)
(* factory, in strictly ascending order, whatever the earlier attempts     *)
(* returned: while it runs the attempts are ascending and registered, and  *)
(* when it returns they are exactly the registered eligible identities.    *)
(***************************************************************************)
C2_AttemptsAllAscending ==
    /\ \A m, n \in DOMAIN attempts : m < n => attempts[m] < attempts[n]
    /\ \A n \in DOMAIN attempts : HasFactory(attempts[n])
    /\ PassReturned => attempts = SelectSeq(Eligible, HasFactory)

\* UI failed, and MATTER and MQTT were attempted after it
C2_Witness ==
    /\ PassReturned
    /\ attempts = <<UI, MATTER, MQTT>>
    /\ results[1].err # "ESP_OK"

(***************************************************************************)
(* C3.  For an identity with no registered factory a pass invokes no       *)
(* factory and no TaskInit and leaves its record as the pass found it, and *)
(* the step that skips it leaves the status of the pass as it was.         *)
(***************************************************************************)
C3_Untouched(serviceID) ==
    /\ serviceID \notin IdsOf(factoryCalls)
    /\ serviceID \notin IdsOf(taskInits)
    /\ \A n \in DOMAIN attempts : attempts[n] # serviceID
    /\ SameRecord(serviceID, passStart.instances, passStart.handles)

C3_SkipLeavesNoTrace ==
    /\ [](PassReturned => \A serviceID \in ValidIDs :
                             ~HasFactory(serviceID) => C3_Untouched(serviceID))
    /\ [][(pc = "head" /\ cur \in ValidIDs /\ ~HasFactory(cur))
            => (acc' = acc /\ pc' = "head" /\ UNCHANGED <<recordVars, attempts,
                                                           factoryCalls, taskInits>>)]_vars

\* MATTER was skipped between two services that were started
C3_Witness ==
    /\ PassReturned
    /\ skipped = {MATTER}
    /\ attempts = <<UI, MQTT>>
    /\ {UI, MQTT} \subseteq DOMAIN sServiceHandles

(***************************************************************************)
(* C4.  A pass never creates or starts NO_ID, SERVICE_MANAGER or LOG, also *)
(* when a factory is registered for them.                                  *)
(***************************************************************************)
Reserved == {NO_ID, SERVICE_MANAGER, LOG}

C4_ReservedNeverStarted ==
    /\ \A n \in DOMAIN attempts : attempts[n] \notin Reserved
    /\ IdsOf(factoryCalls) \cap Reserved = {}
    /\ IdsOf(taskInits) \cap Reserved = {}
    /\ (DOMAIN sServiceInstances) \cap Reserved = {}
    /\ (DOMAIN sServiceHandles) \cap Reserved = {}

\* a pass of the loop form returned with a factory registered for LOG
C4_Witness ==
    /\ PassReturned
    /\ impl = "loop"
    /\ HasFactory(LOG)
    /\ attempts # << >>

(***************************************************************************)
(* C5.  When the factory gave a service and its TaskInit failed,           *)
(* InitializeService returns a failure with no service handle stored for   *)
(* the identity and sServiceHandles as it was at the call.                 *)
(***************************************************************************)
C5_StartFailureRollsBack ==
    (InitReturned /\ service # nullptr /\ CalledTaskInit /\ LastTaskInit.err # "ESP_OK")
        => /\ ~MapHas(sServiceInstances, cur)
           /\ sServiceHandles = pre.handles
           /\ initErr # "ESP_OK"

\* the start failed for an identity an earlier pass had started
C5_Witness ==
    /\ InitReturned
    /\ service # nullptr
    /\ CalledTaskInit
    /\ LastTaskInit.err # "ESP_OK"
    /\ MapHas(pre.instances, cur)

(***************************************************************************)
(* C6.  When the factory gave a service and its TaskInit succeeded,        *)
(* InitializeService returns ESP_OK with the service and the handle that   *)
(* TaskInit produced stored for the identity.                              *)
(***************************************************************************)
C6_StartSuccessStoresBoth ==
    (InitReturned /\ service # nullptr /\ CalledTaskInit /\ LastTaskInit.err = "ESP_OK")
        => /\ MapHas(sServiceInstances, cur)
           /\ sServiceInstances[cur] = service
           /\ MapHas(sServiceHandles, cur)
           /\ sServiceHandles[cur] = LastTaskInit.handle
           /\ LastTaskInit.handle # nullptr
           /\ initErr = "ESP_OK"

\* MQTT was started after UI had been
C6_Witness ==
    /\ InitReturned
    /\ cur = MQTT
    /\ service # nullptr
    /\ CalledTaskInit
    /\ LastTaskInit.err = "ESP_OK"
    /\ MapHas(pre.handles, UI)

(***************************************************************************)
(* C7.  When the factory yields an empty handle, InitializeService returns *)
(* a failure, calls no TaskInit and leaves both record tables as they were *)
(* at the call.                                                            *)
(***************************************************************************)
C7_CreateFailureChangesNothing ==
    (InitReturned /\ service = nullptr)
        => /\ initErr # "ESP_OK"
           /\ ~CalledTaskInit
           /\ sServiceInstances = pre.instances
           /\ sServiceHandles = pre.handles

\* the factory failed for an identity an earlier pass had started
C7_Witness ==
    /\ InitReturned
    /\ service = nullptr
    /\ MapHas(pre.instances, cur)
    /\ MapHas(pre.handles, cur)

(***************************************************************************)
(* Vocabulary of the properties of the registry: lastOp is the call that   *)
(* has just returned, lastOp.before the table it found.                    *)
(***************************************************************************)
Registered(op) == op.op = "RegisterService"
Created(op) == op.op = "CreateService"

\* every value a slot may hold
FactoryValues == Factories \cup {ProjectFactory(serviceID) : serviceID \in ValidIDs}
                           \cup {nullptr}

(***************************************************************************)
(* C8.  For every identity strictly between NO_ID and MAX_ID and every     *)
(* value passed as the factory, RegisterService returns true and           *)
(* IsServiceRegistered of the identity is true right afterwards.           *)
(***************************************************************************)
C8_RegisterMakesRegistered ==
    (Registered(lastOp) /\ lastOp.id \in ValidIDs)
        => (lastOp.ok /\ IsServiceRegistered(sFactories, lastOp.id))

(***************************************************************************)
(* C9.  RegisterService with NO_ID or an identity at or above MAX_ID       *)
(* returns false and leaves every slot as it was, and IsServiceRegistered  *)
(* of that identity is false before and after.                             *)
(***************************************************************************)
C9_InvalidRegistrationRejected ==
    (Registered(lastOp) /\ (lastOp.id = NO_ID \/ lastOp.id >= MAX_ID))
        => /\ ~lastOp.ok
           /\ sFactories = lastOp.before
           /\ ~IsServiceRegistered(lastOp.before, lastOp.id)
           /\ ~IsServiceRegistered(sFactories, lastOp.id)

\* a factory was offered for NO_ID while the table held registrations
C9_Witness ==
    /\ Registered(lastOp)
    /\ lastOp.id = NO_ID
    /\ lastOp.factory # nullptr
    /\ \E serviceID \in ValidIDs : HasFactory(serviceID)

(***************************************************************************)
(* C10.  Registering over a registered identity returns true, puts the     *)
(* later factory in the slot in place of the earlier one and changes no    *)
(* other slot, every slot holding one value; a CreateService for an        *)
(* identity invokes no factory but the one registered last for it, and     *)
(* invokes that one whenever it is a factory.                              *)
(***************************************************************************)
C10_LaterFactoryReplaces ==
    /\ sFactories \in [Slots -> FactoryValues]
    /\ (Registered(lastOp) /\ lastOp.id \in ValidIDs /\ lastOp.before[lastOp.id] # nullptr)
          => /\ lastOp.ok
             /\ sFactories[lastOp.id] = lastOp.factory
             /\ \A other \in Slots \ {lastOp.id} : sFactories[other] = lastOp.before[other]
    /\ (Created(lastOp) /\ lastOp.id \in ValidIDs)
          => /\ lastOp.invoked = lastReg[lastOp.id]
             /\ (lastOp.invoked # nullptr => lastOp.invoked \notin replaced[lastOp.id])

\* a factory created a service for an identity whose earlier factory it replaced
C10_Witness ==
    /\ Created(lastOp)
    /\ lastOp.id \in ValidIDs
    /\ lastOp.invoked # nullptr
    /\ lastOp.made # nullptr
    /\ replaced[lastOp.id] # {}

(***************************************************************************)
(* C11.  CreateService returns an empty handle and invokes no factory when *)
(* the identity is NO_ID or at or above MAX_ID, and returns an empty       *)
(* handle when the identity is valid and its slot holds no factory; in     *)
(* both cases the table is as the call found it.                           *)
(***************************************************************************)
C11_CreateRejected ==
    (Created(lastOp) /\ (lastOp.id = NO_ID \/ lastOp.id >= MAX_ID
                           \/ lastOp.before[lastOp.id] = nullptr))
        => /\ lastOp.ret = nullptr
           /\ lastOp.invoked = nullptr
           /\ lastOp.calls = << >>
           /\ sFactories = lastOp.before

\* a service was asked for MAX_ID while the last slot held a factory
C11_Witness ==
    /\ Created(lastOp)
    /\ lastOp.id = MAX_ID
    /\ HasFactory(MAX_ID - 1)
    /\ lastOp.ret = nullptr

(***************************************************************************)
(* C12.  For a valid identity whose slot holds a factory, CreateService    *)
(* invokes that factory once, with the task name and the identity it was   *)
(* given, and returns what the factory yielded, an empty handle included.  *)
(***************************************************************************)
C12_CreateInvokesRegistered ==
    (Created(lastOp) /\ lastOp.id \in ValidIDs /\ lastOp.before[lastOp.id] # nullptr)
        => /\ lastOp.calls = << [f |-> lastOp.before[lastOp.id],
                                 name |-> lastOp.name, id |-> lastOp.id] >>
           /\ lastOp.invoked = lastOp.before[lastOp.id]
           /\ lastOp.ret = lastOp.made

\* the factory of UI was called under another name and failed
C12_Witness ==
    /\ Created(lastOp)
    /\ lastOp.id = UI
    /\ lastOp.name = "X"
    /\ Len(lastOp.calls) = 1
    /\ lastOp.made = nullptr
    /\ lastOp.ret = nullptr

(***************************************************************************)
(* C13.  IsServiceRegistered answers false for NO_ID, for an identity at   *)
(* or above MAX_ID and for an empty slot, and true otherwise; the call     *)
(* leaves the factory table and both record tables as they were.           *)
(***************************************************************************)
Queried(op) == op.op = "IsServiceRegistered"

C13_QueryIsPure ==
    /\ [](Queried(lastOp)
            => /\ lastOp.ok = ~(lastOp.id = NO_ID \/ lastOp.id >= MAX_ID
                                  \/ lastOp.before[lastOp.id] = nullptr)
               /\ sFactories = lastOp.before)
    /\ [][(Queried(lastOp') /\ lastOp' # lastOp)
            => UNCHANGED <<sFactories, sServiceInstances, sServiceHandles>>]_vars

\* the query answered true for MQTT, which a pass had started, and UI was not registered
C13_Witness ==
    /\ Queried(lastOp)
    /\ lastOp.id = MQTT
    /\ lastOp.ok
    /\ MapHas(sServiceInstances, MQTT)
    /\ MapHas(sServiceHandles, MQTT)
    /\ ~HasFactory(UI)

(***************************************************************************)
(* C14.  No identity goes back to UNREGISTERED: once IsServiceRegistered   *)
(* is true of an identity, no later registry call and no step of a pass    *)
(* makes it false.                                                         *)
(***************************************************************************)
C14_NeverUnregistered ==
    [][\A serviceID \in ValidIDs :
          IsServiceRegistered(sFactories, serviceID)
              => IsServiceRegistered(sFactories', serviceID)]_vars

(***************************************************************************)
(* C15.  No identity leaves STARTED: once both record tables hold an entry *)
(* for an identity, no later registry call and no step of a later pass     *)
(* removes either, whatever the factory and TaskInit then answer.          *)
(***************************************************************************)
Started(serviceID) ==
    MapHas(sServiceInstances, serviceID) /\ MapHas(sServiceHandles, serviceID)

C15_NeverLeavesStarted ==
    [][\A serviceID \in ValidIDs : Started(serviceID) => Started(serviceID)']_vars

(***************************************************************************)
(* C16.  Within one pass nothing is done twice for an identity: its        *)
(* factory is invoked at most once and TaskInit is called at most once,    *)
(* once when the factory yielded a service and not at all when it yielded  *)
(* none; when the pass returns, the factory of every registered eligible   *)
(* identity has been invoked once and InitializeService has returned once  *)
(* for it, failed or not.                                                  *)
(***************************************************************************)
\* how many entries of a history are about serviceID
Count(history, serviceID) ==
    Cardinality({n \in DOMAIN history : history[n].id = serviceID})

C16_OncePerPass ==
    /\ \A serviceID \in ValidIDs :
          /\ Cardinality({n \in DOMAIN attempts : attempts[n] = serviceID}) <= 1
          /\ Count(factoryCalls, serviceID) <= 1
          /\ Count(taskInits, serviceID) <= 1
          /\ Count(results, serviceID) <= 1
    /\ \A n \in DOMAIN results :
          Count(taskInits, results[n].id) = IF results[n].made # nullptr THEN 1 ELSE 0
    /\ PassReturned
          => \A n \in DOMAIN Eligible :
                HasFactory(Eligible[n])
                    => /\ Count(factoryCalls, Eligible[n]) = 1
                       /\ Count(results, Eligible[n]) = 1

\* the factory of UI failed, the start of MATTER failed, MQTT was started
C16_Witness ==
    /\ PassReturned
    /\ attempts = <<UI, MATTER, MQTT>>
    /\ results[1].made = nullptr
    /\ results[2].made # nullptr
    /\ results[2].err # "ESP_OK"
    /\ results[3].err = "ESP_OK"
    /\ Len(taskInits) = 2

(***************************************************************************)
(* C17.  At most one service instance exists per identity: the service a   *)
(* factory yields for an identity that already has a service stored is     *)
(* that stored service, whatever registrations were made in between.       *)
(***************************************************************************)
C17_OneInstancePerIdentity ==
    (pc \in {"taskinit", "ret"} /\ service # nullptr /\ MapHas(pre.instances, cur))
        => service = pre.instances[cur]

(***************************************************************************)
(* C18.  Calling a registration routine of the project twice in a row      *)
(* leaves the factory table as calling it once: the second call of         *)
(* RegisterServices, which its guard stops, and the second call of         *)
(* RegisterProjectServices, which registers again, leave every slot as the *)
(* first call left it.                                                     *)
(***************************************************************************)
ProjectRoutines == {"RegisterServices", "RegisterProjectServices"}

C18_TwiceAsOnce ==
    (lastOp.op \in ProjectRoutines /\ lastOp.again) => sFactories = lastOp.before

\* RegisterProjectServices was called a second time, over its own registrations
C18_Witness ==
    /\ lastOp.op = "RegisterProjectServices"
    /\ lastOp.again
    /\ HasFactory(UI)
    /\ HasFactory(MQTT)
    /\ ~sServicesRegistered

(***************************************************************************)
(* C19.  The constructor of the manager runs the three bring-up calls in   *)
(* their order and then asks for its own task at tskIDLE_PRIORITY + 1 with *)
(* the stack size of SERVICE_MANAGER, whatever each call returned:         *)
(* app_main gets past the construction only with all four done; and the    *)
(* construction creates and starts no service.                             *)
(***************************************************************************)
\* app_main is past the construction of the manager
Constructed == main > Len(AppMain)

C19_ConstructionGoesThrough ==
    /\ Constructed
          => /\ [n \in DOMAIN ctor.ran |-> ctor.ran[n].step]
                    = <<"nvsFlashInit", "SpiffsInit", "SharedBus::Init">>
             /\ Len(ctor.task) = 1
             /\ ctor.task[1].prio = tskIDLE_PRIORITY + 1
             /\ ctor.task[1].stack = mServiceStackSize(SERVICE_MANAGER)
    /\ numPasses = 0
          => /\ sServiceInstances = EmptyMap
             /\ sServiceHandles = EmptyMap
             /\ factoryCalls = << >>
             /\ taskInits = << >>

\* the construction ended with every bring-up call and TaskInit having failed
C19_Witness ==
    /\ Constructed
    /\ Len(ctor.ran) = 3
    /\ \A n \in DOMAIN ctor.ran : ctor.ran[n].err # "ESP_OK"
    /\ Len(ctor.task) = 1
    /\ ctor.task[1].err # "ESP_OK"
    /\ HasFactory(UI)

(***************************************************************************)
(* C20.  On the bootstrap path the registrations of the project are made   *)
(* before the manager is constructed: from the first step of the           *)
(* constructor on the factory table is not written any more, and a pass    *)
(* finds the factory of every component of the build registered.           *)
(***************************************************************************)
C20_RegistrationBeforeStartup ==
    /\ [](numPasses > 0
            => \A serviceID \in components :
                  sFactories[serviceID] = ProjectFactory(serviceID))
    /\ [][(ctor # NoCtor \/ numPasses > 0) => UNCHANGED registryVars]_vars

\* a pass attempted the three components that app_main had registered
C20_Witness ==
    /\ PassReturned
    /\ Constructed
    /\ components = {UI, MATTER, MQTT}
    /\ attempts = <<UI, MATTER, MQTT>>
    /\ ~sServicesRegistered

(***************************************************************************)
(* C21.  A pass that has begun returns: it is never left before the last   *)
(* eligible identity, so that at its return every eligible identity has    *)
(* been attempted or skipped, and it takes at most one InitializeService   *)
(* call per eligible identity.                                             *)
(***************************************************************************)
C21_PassTerminates ==
    /\ (pc # "idle") ~> (pc = "idle" /\ PassReturned)
    /\ [](Len(attempts) <= Len(Eligible))
    /\ [](PassReturned
            => {attempts[n] : n \in DOMAIN attempts} \cup skipped
                  = {Eligible[n] : n \in DOMAIN Eligible})

\* a pass returned after the three identities had failed, each in its own way
C21_Witness ==
    /\ PassReturned
    /\ attempts = <<UI, MATTER, MQTT>>
    /\ results[1].err = "ESP_ERR_NO_MEM"
    /\ results[2].made = nullptr
    /\ results[3].made # nullptr
    /\ results[3].err = "ESP_FAIL"

(***************************************************************************)
(* C22.  An identity the pass has found unregistered is not created and    *)
(* not started by that pass, also when a factory is registered for it      *)
(* while the pass is still running; and with no pass running no step       *)
(* changes the record tables, so that only a new startup trigger starts    *)
(* it.                                                                     *)
(***************************************************************************)
C22_NoDeferredRegistration ==
    /\ [](\A serviceID \in skipped :
            /\ \A n \in DOMAIN attempts : attempts[n] # serviceID
            /\ \A n \in DOMAIN factoryCalls : factoryCalls[n].id # serviceID
            /\ \A n \in DOMAIN taskInits : taskInits[n].id # serviceID
            /\ SameRecord(serviceID, passStart.instances, passStart.handles))
    /\ [][(pc = "idle" /\ pc' = "idle") => UNCHANGED recordVars]_vars

\* the pass found UI unregistered, a factory was registered for UI while the
\* pass went on to start MATTER, and the pass has returned
C22_Witness ==
    /\ PassReturned
    /\ UI \in skipped
    /\ IsServiceRegistered(sFactories, UI)
    /\ Started(MATTER)
    /\ ~MapHas(sServiceInstances, UI)

(***************************************************************************)
(* C23.  No step of a pass, InitializeService included, changes a slot of  *)
(* the factory table, and no call of RegisterService, CreateService or     *)
(* IsServiceRegistered made outside a pass changes sServiceInstances or    *)
(* sServiceHandles.                                                        *)
(***************************************************************************)
C23_Frames ==
    [][/\ (pc # "idle" \/ pc' # "idle") => sFactories' = sFactories
       /\ (pc = "idle" /\ pc' = "idle"
              /\ lastOp'.op \in {"RegisterService", "CreateService", "IsServiceRegistered"})
             => (sServiceInstances' = sServiceInstances
                   /\ sServiceHandles' = sServiceHandles)]_vars

\* a pass has started UI and returned, and CreateService, called for UI
\* afterwards, has yielded a service: UI's record and its slot are as the
\* pass left them
C23_Witness ==
    /\ PassReturned
    /\ Started(UI)
    /\ lastOp.op = "CreateService"
    /\ lastOp.id = UI
    /\ lastOp.made # nullptr
    /\ sFactories = lastOp.before

(***************************************************************************)
(* C24.  A call of RegisterServices made once sServicesRegistered is set   *)
(* makes no RegisterService call and leaves the factory table as it finds *)
(* it, whatever was registered since the call that set the flag.           *)
(***************************************************************************)
C24_LaterCallsAreNoOps ==
    [][(sServicesRegistered /\ lastOp'.op = "RegisterServices")
         => (sFactories' = sFactories /\ lastReg' = lastReg /\ replaced' = replaced
               /\ sServicesRegistered')]_vars

\* RegisterServices has returned at its guard: the slot of a component holds
\* a factory registered after the call that set the flag
C24_Witness ==
    /\ lastOp.op = "RegisterServices"
    /\ sServicesRegistered
    /\ \E serviceID \in components :
          /\ sFactories[serviceID] \in Factories
          /\ sFactories[serviceID] # ProjectFactory(serviceID)

(***************************************************************************)
(* C25.  Whenever InitializeService is not executing, every identity has   *)
(* a service handle stored exactly when it has an execution handle stored, *)
(* after any number of passes.                                             *)
(***************************************************************************)
InitializeServiceExecuting == pc \in {"create", "taskinit"}

C25_AllOrNothing ==
    ~InitializeServiceExecuting
        => \A serviceID \in ValidIDs :
              MapHas(sServiceInstances, serviceID) <=> MapHas(sServiceHandles, serviceID)

(***************************************************************************)
(* C26.  Every factory call InitializeService makes for an identity        *)
(* passes the identity's own name, and every TaskInit call it makes passes *)
(* the priority tskIDLE_PRIORITY + 1 and the identity's own stack size:    *)
(* 50 KiB for UI and MATTER, 20 KiB for MQTT.                              *)
(***************************************************************************)
C26_OwnNameAndStack ==
    /\ \A n \in DOMAIN factoryCalls :
          /\ factoryCalls[n].id \in {UI, MATTER, MQTT}
          /\ factoryCalls[n].id = UI => factoryCalls[n].name = "UI"
          /\ factoryCalls[n].id = MATTER => factoryCalls[n].name = "MATTER"
          /\ factoryCalls[n].id = MQTT => factoryCalls[n].name = "MQTT"
    /\ \A n \in DOMAIN taskInits :
          /\ taskInits[n].id \in {UI, MATTER, MQTT}
          /\ taskInits[n].prio = tskIDLE_PRIORITY + 1
          /\ taskInits[n].id \in {UI, MATTER} => taskInits[n].stack = 50 * 1024
          /\ taskInits[n].id = MQTT => taskInits[n].stack = 20 * 1024
    /\ (pc \in {"taskinit", "ret"} /\ factoryCalls # << >>)
          => factoryCalls[Len(factoryCalls)].id = cur
    /\ (InitReturned /\ CalledTaskInit) => LastTaskInit.id = cur

\* one pass has requested the start of UI, MATTER and MQTT
C26_Witness ==
    /\ PassReturned
    /\ Len(factoryCalls) = 3
    /\ Len(taskInits) = 3
    /\ taskInits[1].id = UI
    /\ taskInits[2].id = MATTER
    /\ taskInits[3].id = MQTT

(***************************************************************************)
(* C27.  InitializeService returns ESP_FAIL when the factory yielded an    *)
(* empty handle and the status of TaskInit, as it is, when the start       *)
(* failed; and the status a pass returns is the one of its first failure:  *)
(* ESP_FAIL when that was an empty handle, the status TaskInit returned    *)
(* for that identity when it was a failed start.                           *)
(***************************************************************************)
\* the first entry of results that is a failure
FirstFailed == CHOOSE n \in Failures : \A k \in Failures : n <= k

C27_StatusOfFirstFailure ==
    /\ (InitReturned /\ service = nullptr) => initErr = "ESP_FAIL"
    /\ (InitReturned /\ service # nullptr /\ CalledTaskInit)
          => initErr = LastTaskInit.err
    /\ (PassReturned /\ Failures # {})
          => IF results[FirstFailed].made = nullptr
             THEN passRet = "ESP_FAIL"
             ELSE \E k \in DOMAIN taskInits :
                     /\ taskInits[k].id = results[FirstFailed].id
                     /\ passRet = taskInits[k].err

(***************************************************************************)
(* C28.  The loop form and the unrolled form of a pass agree: whichever    *)
(* form has run, the identities attempted are the registered eligible ones *)
(* in ascending order, the record tables are what the outcomes of these    *)
(* attempts make of the tables the pass began with, and the status         *)
(* returned is the one the loop form computes from these outcomes and also *)
(* the one the unrolled form computes from them.                           *)
(***************************************************************************)
\* the record of serviceID is what the outcome of its attempt makes of it
C28_RecordOf(serviceID) ==
    LET at == {n \in DOMAIN results : results[n].id = serviceID} IN
    IF at = {} \/ (\E n \in at : results[n].made = nullptr)
    THEN SameRecord(serviceID, passStart.instances, passStart.handles)
    ELSE \E n \in at, k \in DOMAIN taskInits :
            /\ taskInits[k].id = serviceID
            /\ taskInits[k].err = results[n].err
            /\ IF results[n].err = "ESP_OK"
               THEN /\ MapHas(sServiceInstances, serviceID)
                    /\ sServiceInstances[serviceID] = results[n].made
                    /\ MapHas(sServiceHandles, serviceID)
                    /\ sServiceHandles[serviceID] = taskInits[k].handle
               ELSE /\ ~MapHas(sServiceInstances, serviceID)
                    /\ SameRecord(serviceID, sServiceInstances, passStart.handles)

C28_FormsAgree ==
    PassReturned
        => /\ attempts = SelectSeq(Eligible, HasFactory)
           /\ IdsOf(results) = {attempts[n] : n \in DOMAIN attempts}
           /\ \A serviceID \in ValidIDs : C28_RecordOf(serviceID)
           /\ passRet = LoopStatus(results, 1, "ESP_OK")
           /\ passRet = UnrolledStatus(results, 1, "ESP_OK")

(***************************************************************************)
(* C29.  In a build of UI, MATTER and MQTT whose factories never yield an  *)
(* empty handle, a pass of the generalized manager requests the starts the *)
(* legacy manager requests, in the same order and with the same priority   *)
(* and stack sizes, and returns the status the legacy manager computes     *)
(* from the same TaskInit outcomes.                                        *)
(***************************************************************************)
\* the premise: three components; under the generalized manager their
\* factories are registered and none has yielded an empty handle
C29_SameBuild ==
    /\ components = {UI, MATTER, MQTT}
    /\ impl \in Impls
          => /\ \A serviceID \in components : HasFactory(serviceID)
             /\ \A n \in DOMAIN results : results[n].made # nullptr

C29_SameAsLegacy ==
    (PassReturned /\ C29_SameBuild)
        => /\ attempts = <<UI, MATTER, MQTT>>
           /\ Len(taskInits) = 3
           /\ \A n \in DOMAIN taskInits :
                 /\ taskInits[n].id = attempts[n]
                 /\ taskInits[n].prio = tskIDLE_PRIORITY + 1
                 /\ taskInits[n].stack = mServiceStackSize(attempts[n])
                 /\ taskInits[n].err = results[n].err
           /\ passRet = LegacyStatus(results, 1, "ESP_OK")

(***************************************************************************)
(* C30.  Whenever a startup has requested the start of UI and goes on to   *)
(* construct MATTER, the delay has elapsed in between, whatever the start  *)
(* of UI returned; and there is a delay only in a build with MATTER, after *)
(* the start of UI was requested.                                          *)
(***************************************************************************)
\* this step constructs MATTER
C30_ConstructsMATTER ==
    /\ Len(factoryCalls') = Len(factoryCalls) + 1
    /\ factoryCalls'[Len(factoryCalls')].id = MATTER

C30_DelayBeforeMATTER ==
    /\ [][(C30_ConstructsMATTER /\ UI \in IdsOf(taskInits))
            => (lastOp.op = "vTaskDelay" /\ lastOp.id = LegacyDelayMs)]_vars
    /\ [](lastOp.op = "vTaskDelay"
            => (MATTER \in components /\ UI \in IdsOf(taskInits)))

(***************************************************************************)
(* C31.  With RegisterService calls and a pass overlapping in any way,     *)
(* each table holds one entry per identity at most, and a factory the pass *)
(* invokes for an identity is one the slot of that identity held at the    *)
(* lookup: the one it held before the step or the one it holds after it.   *)
(***************************************************************************)
C31_LookupGetsRegistered ==
    /\ [](/\ DOMAIN sFactories = Slots
          /\ DOMAIN sServiceInstances \subseteq ValidIDs
          /\ DOMAIN sServiceHandles \subseteq ValidIDs)
    /\ [][Len(factoryCalls') = Len(factoryCalls) + 1
            => LET call == factoryCalls'[Len(factoryCalls')] IN
               /\ call.id = cur
               /\ call.f # nullptr
               /\ call.f \in {sFactories[cur], sFactories'[cur]}]_vars
=============================================================================
